---- MODULE Spec2Model ----
(***************************************************************************)
(* Model of the congress-trades scraper: the one-shot full crawl           *)
(* (scrape_congress_trades.py) and the polling monitor (trade_monitor.py), *)
(* both working on the same CSV store against a paginated web source.      *)
(*                                                                         *)
(* Texts (cell contents, CSV fields, identity keys) are sequences of       *)
(* one-character strings, so that strip(), lower() and the concatenation   *)
(* that builds the identity key are computed and not assumed.  URLs are    *)
(* TLA+ strings built by string concatenation, as the code builds them.    *)
(* The CSV file is modelled at the level of its rows: a sequence of rows,  *)
(* each a sequence of texts (csv quoting round-trips every text).          *)
(***************************************************************************)
EXTENDS Integers, Sequences, FiniteSets, TLC

\* ------------------------------------------------------------- bounds
\* Longest chain of linked pages the source serves.
MaxChain == 4
\* Number of times the source publishes a new row during one behaviour.
MaxPublish == 1

\* ---------------------------------------------------------- constants
BASE_URL == "https://www.capitoltrades.com"
START_URL == "https://www.capitoltrades.com/trades?page=1"
\* The page cap of the polling variant: `len(visited) < 3`.
PageCap == 3
\* A row needs at least this many cells: `if len(cols) < 9: continue`.
MinCols == 9
\* Python's None for an absent URL or href (no URL or href equals it).
None == "None"
\* The store before any program has created the file.
NoFile == [exists |-> FALSE, rows |-> <<>>]

\* ------------------------------------------------------------- texts
Politician == <<"P","o","l","i","t","i","c","i","a","n">>
Issuer == <<"I","s","s","u","e","r">>
PublishedDate == <<"P","u","b","l","i","s","h","e","d","D","a","t","e">>
TradedDate == <<"T","r","a","d","e","d","D","a","t","e">>
DaysAfter == <<"D","a","y","s","A","f","t","e","r">>
Owner == <<"O","w","n","e","r">>
Type == <<"T","y","p","e">>
SizeRange == <<"S","i","z","e","R","a","n","g","e">>
Price == <<"P","r","i","c","e">>

\* fieldnames of the csv.DictWriter, in column order.
fieldnames ==
    << Politician, Issuer, PublishedDate, TradedDate, DaysAfter,
       Owner, Type, SizeRange, Price >>

\* str.lower() on one character.
LowerChar(c) ==
    CASE c = "A" -> "a" [] c = "B" -> "b" [] c = "D" -> "d" [] c = "E" -> "e"
      [] c = "I" -> "i" [] c = "L" -> "l" [] c = "O" -> "o" [] c = "P" -> "p"
      [] c = "R" -> "r" [] c = "S" -> "s" [] c = "T" -> "t" [] c = "U" -> "u"
      [] c = "Y" -> "y" [] OTHER -> c

\* Variant: the text is kept as it is.
Lower_Keep(s) == s

\* str.lower()
Lower(s) == [i \in 1..Len(s) |-> LowerChar(s[i])]

IsSpace(c) == c \in {" ", "\t", "\n"}

RECURSIVE LStrip(_)
LStrip(s) == IF s # <<>> /\ IsSpace(Head(s)) THEN LStrip(Tail(s)) ELSE s

RECURSIVE RStrip(_)
RStrip(s) ==
    IF s # <<>> /\ IsSpace(s[Len(s)]) THEN RStrip(SubSeq(s, 1, Len(s) - 1)) ELSE s

\* cell.get_text(strip=True) of a cell holding one text node.
GetTextStrip(s) == RStrip(LStrip(s))

\* ------------------------------------------------------------ the source
Digit == <<"1", "2", "3", "4", "5", "6", "7", "8", "9">>

\* The relative link target of page i, and the URL the programs build from it.
PageHref(i) == "/trades?page=" \o Digit[i]
PageUrl(i) == BASE_URL \o PageHref(i)

\* One table row of 9 cells, as raw cell texts.
MkRow(pol, iss, td, ty, sz, pr) ==
    << pol, iss, <<"0","3">>, td, <<"2">>, <<"s","e","l","f">>, ty, sz, pr >>

\* The row listed on page i in the plain layout: pairwise distinct identities.
R(i) == MkRow(<<"n", Digit[i]>>, <<" ", "x", " ">>, <<"0","1">>,
              IF i % 2 = 1 THEN <<"B","u","y">> ELSE <<"S","e","l","l">>,
              <<"1","K">>, <<"$","5">>)

\* R(1) disclosed again with another size and price.
R1p == MkRow(<<"n", Digit[1]>>, <<"x">>, <<"0","1">>, <<"b","u","y">>,
             <<"5","K">>, <<"$","9">>)

\* A row the source publishes later (a new identity).
Rnew == MkRow(<<"n","e","w">>, <<"y">>, <<"0","2">>, <<"S","E","L","L">>,
              <<"1","K">>, <<"$","7">>)

\* A malformed row: 8 cells.
Short == SubSeq(R(1), 1, 8)

\* A row that differs from R(1) in Politician and TradedDate and whose four
\* identity fields, written one after the other, read the same as R(1)'s.
Shifted == MkRow(<<"n">>, <<"x">>, <<"1","0","1">>, <<"b","u","y">>,
                 <<"1","K">>, <<"$","5">>)

\* A row with a tenth cell.
Wide == R(7) \o << <<"m","o","r","e">> >>

\* Layouts of the tables: one row per page; a repeated identity on one page
\* or across pages; a second page without the table, with an empty table, or
\* with malformed rows only; a second page with a 10-cell and an 8-cell row;
\* a second page with the shifted row.
Layouts ==
    {"plain", "dupSame", "dupAcross", "gap", "emptyTable", "allShort", "wide",
     "shifted"}

\* The layout of the two-page listing with 5 valid rows and a malformed one on
\* page 1 and 3 valid rows on page 2.
Example == "example"

\* The table of page i under a layout: whether the table is there, and its rows.
Body(layout, i) ==
    CASE layout = "dupSame" /\ i = 1 -> [table |-> TRUE, rows |-> <<R(1), R1p>>]
      [] layout = "dupAcross" /\ i = 2 -> [table |-> TRUE, rows |-> <<R1p, Short, R(2)>>]
      [] layout = "gap" /\ i = 2 -> [table |-> FALSE, rows |-> <<>>]
      [] layout = "emptyTable" /\ i = 2 -> [table |-> TRUE, rows |-> <<>>]
      [] layout = "allShort" /\ i = 2 ->
            [table |-> TRUE, rows |-> <<Short, SubSeq(R(2), 1, 3)>>]
      [] layout = "wide" /\ i = 2 -> [table |-> TRUE, rows |-> <<Wide, Short, R(2)>>]
      [] layout = "shifted" /\ i = 2 -> [table |-> TRUE, rows |-> <<Shifted>>]
      [] layout = Example /\ i = 1 ->
            [table |-> TRUE, rows |-> <<R(1), R(2), Short, R(3), R(4), R(5)>>]
      [] layout = Example /\ i = 2 ->
            [table |-> TRUE, rows |-> <<R(6), R(7), R(8)>>]
      [] OTHER -> [table |-> TRUE, rows |-> <<R(i)>>]

\* The next-page control of a page: present or not, with a link target or not.
NoControl == [control |-> FALSE, href |-> None]
NoHrefControl == [control |-> TRUE, href |-> None]
LinkTo(h) == [control |-> TRUE, href |-> h]

\* How the last page of a chain of n pages ends: without a next-page control,
\* with one that has no link target, with a link to a page the source does not
\* serve, with a link back to page 1, or with a link to itself.
Tails(n) == {"none", "nohref", "dangling", Digit[1], Digit[n]}

TailControl(n, tail) ==
    CASE tail = "none" -> NoControl
      [] tail = "nohref" -> NoHrefControl
      [] tail = "dangling" -> LinkTo(PageHref(n + 1))
      [] OTHER -> LinkTo("/trades?page=" \o tail)

\* A source is described by the length of its chain of linked pages, how the
\* last page ends, the layout of the tables, and the rows published since
\* (newest first), which it lists at the top of page 1.
Sources ==
    {[n |-> n, tail |-> tail, layout |-> "plain", top |-> <<>>] :
        <<n, tail>> \in {t \in (1..MaxChain) \X (UNION {Tails(n) : n \in 1..MaxChain}) :
                            t[2] \in Tails(t[1])}}
    \cup
    {[n |-> n, tail |-> "none", layout |-> layout, top |-> <<>>] :
        <<n, layout>> \in (2..3) \X Layouts}
    \cup
    {[n |-> 2, tail |-> "none", layout |-> Example, top |-> <<>>]}

\* The documents a source serves, by URL.
Web(src) ==
    [u \in {PageUrl(i) : i \in 1..src.n} |->
        LET i == CHOOSE j \in 1..src.n : PageUrl(j) = u
            b == Body(src.layout, i)
        IN  [table |-> b.table \/ (i = 1 /\ src.top # <<>>),
             rows |-> IF i = 1 THEN src.top \o b.rows ELSE b.rows,
             next |-> IF i < src.n THEN LinkTo(PageHref(i + 1))
                      ELSE TailControl(src.n, src.tail)]]

\* ----------------------------------------------- trade_monitor.py, pure parts
\* The dict built from the first 9 cells of one table row.
RecordOf(cols) ==
    (Politician :> GetTextStrip(cols[1])) @@
    (Issuer :> GetTextStrip(cols[2])) @@
    (PublishedDate :> GetTextStrip(cols[3])) @@
    (TradedDate :> GetTextStrip(cols[4])) @@
    (DaysAfter :> GetTextStrip(cols[5])) @@
    (Owner :> GetTextStrip(cols[6])) @@
    (Type :> Lower(GetTextStrip(cols[7]))) @@
    (SizeRange :> GetTextStrip(cols[8])) @@
    (Price :> GetTextStrip(cols[9]))

\* Variant: the loop ends at the first row with fewer than 9 cells.
RECURSIVE ParseRows_StopAtShort(_)
ParseRows_StopAtShort(rows) ==
    IF rows = <<>> THEN <<>>
    ELSE IF Len(Head(rows)) < MinCols THEN <<>>
         ELSE <<RecordOf(Head(rows))>> \o ParseRows_StopAtShort(Tail(rows))

\* The loop over `tbody tr`: rows with fewer than 9 cells are skipped.
RECURSIVE ParseRows(_)
ParseRows(rows) ==
    IF rows = <<>> THEN <<>>
    ELSE (IF Len(Head(rows)) < MinCols THEN <<>> ELSE <<RecordOf(Head(rows))>>)
         \o ParseRows(Tail(rows))

parse_trades_from_soup(soup) ==
    IF ~soup.table THEN <<>> ELSE ParseRows(soup.rows)

\* Python truthiness of an optional string.
Truthy(s) == s # None /\ s # ""

\* Variant: the link target is used without looking whether there is one.
find_next_page_url_Unchecked(soup) == BASE_URL \o soup.next.href

find_next_page_url(soup) ==
    IF soup.next.control /\ Truthy(soup.next.href)
    THEN BASE_URL \o soup.next.href
    ELSE None

\* The identity key: the four fields concatenated, in this order.
unique_id(t) == t[Politician] \o t[TradedDate] \o t[Issuer] \o t[Type]

\* csv.DictWriter.writerow: the dict's values in fieldnames order.
writerow(t) == [i \in 1..Len(fieldnames) |-> t[fieldnames[i]]]

\* csv.DictReader: a row as a dict keyed by the file's first row (a name that
\* occurs twice keeps its last column).  Every row of the store has 9 fields.
DictRow(header, row) ==
    [k \in {header[i] : i \in 1..Len(header)} |->
        row[CHOOSE i \in 1..Len(header) :
                header[i] = k /\ \A j \in (i + 1)..Len(header) : header[j] # k]]

\* Variant: the first row of the file is read as a data row too.
DictReader_All(rows) == [i \in 1..Len(rows) |-> DictRow(rows[1], rows[i])]

\* The rows csv.DictReader yields: all but the first row of the file.
DictReader(rows) ==
    IF Len(rows) <= 1 THEN <<>>
    ELSE [i \in 1..(Len(rows) - 1) |-> DictRow(rows[1], rows[i + 1])]

KeyFields == {Politician, TradedDate, Issuer, Type}

\* Variant: the keys built on load leave the Type out.
load_known_ids_NoType(file) ==
    IF ~file.exists THEN [raised |-> FALSE, known |-> {}]
    ELSE LET rd == DictReader(file.rows)
         IN  IF \E i \in 1..Len(rd) : ~(KeyFields \subseteq DOMAIN rd[i])
             THEN [raised |-> TRUE, known |-> {}]
             ELSE [raised |-> FALSE,
                   known |-> {rd[i][Politician] \o rd[i][TradedDate] \o rd[i][Issuer] :
                                i \in 1..Len(rd)}]

\* load_known_ids: the set of keys, or a KeyError raised by row[...] (only
\* FileNotFoundError is caught).
load_known_ids(file) ==
    IF ~file.exists THEN [raised |-> FALSE, known |-> {}]
    ELSE LET rd == DictReader(file.rows)
         IN  IF \E i \in 1..Len(rd) : ~(KeyFields \subseteq DOMAIN rd[i])
             THEN [raised |-> TRUE, known |-> {}]
             ELSE [raised |-> FALSE, known |-> {unique_id(rd[i]) : i \in 1..Len(rd)}]

\* Variant: the loop forgets the visited set.
LoopCond_NoGuard(url, vis) == Truthy(url)

\* `while current_url and current_url not in visited`
LoopCond(url, vis) == Truthy(url) /\ url \notin vis

\* Variant: the page cap is off by one.
Advance_OffByOne(next_url, vis) == Truthy(next_url) /\ Cardinality(vis) <= PageCap

\* `if next_url and len(visited) < 3`
Advance(next_url, vis) == Truthy(next_url) /\ Cardinality(vis) < PageCap

\* Variant: a new record is written and counted, and its key is not indexed.
RECURSIVE AppendNew_NoIndex(_, _)
AppendNew_NoIndex(trades, acc) ==
    IF trades = <<>> THEN acc
    ELSE LET t == Head(trades)
             id == unique_id(t)
         IN  AppendNew_NoIndex(Tail(trades),
                IF id \notin acc.known
                THEN [rows |-> Append(acc.rows, writerow(t)),
                      known |-> acc.known,
                      count |-> acc.count + 1]
                ELSE acc)

\* Variant: every extracted record is counted, written or not.
RECURSIVE AppendNew_CountAll(_, _)
AppendNew_CountAll(trades, acc) ==
    IF trades = <<>> THEN acc
    ELSE LET t == Head(trades)
             id == unique_id(t)
         IN  AppendNew_CountAll(Tail(trades),
                IF id \notin acc.known
                THEN [rows |-> Append(acc.rows, writerow(t)),
                      known |-> acc.known \cup {id},
                      count |-> acc.count + 1]
                ELSE [acc EXCEPT !.count = @ + 1])

\* `for t in trades`: append and index every record whose key is not known.
RECURSIVE AppendNew(_, _)
AppendNew(trades, acc) ==
    IF trades = <<>> THEN acc
    ELSE LET t == Head(trades)
             id == unique_id(t)
         IN  AppendNew(Tail(trades),
                IF id \notin acc.known
                THEN [rows |-> Append(acc.rows, writerow(t)),
                      known |-> acc.known \cup {id},
                      count |-> acc.count + 1]
                ELSE acc)

\* ---------------------------------------- scrape_congress_trades.py, pure parts
scrape_parse_trades_from_soup(soup) ==
    IF ~soup.table THEN <<>> ELSE ParseRows(soup.rows)

\* Variant: the selector names another label and never matches.
scrape_find_next_page_url_NoMatch(soup) == None

scrape_find_next_page_url(soup) ==
    IF soup.next.control /\ Truthy(soup.next.href)
    THEN LET relative == soup.next.href IN BASE_URL \o relative
    ELSE None

\* `while current_url and current_url not in visited`
ScrapeLoopCond(url, vis) == Truthy(url) /\ url \notin vis

\* Variant: of the records of a page with equal keys only the first is written.
WriteAll_Dedup(trades) ==
    AppendNew(trades, [rows |-> <<>>, known |-> {}, count |-> 0]).rows

\* `for t in trades: writer.writerow(t)`
WriteAll(trades) == [i \in 1..Len(trades) |-> writerow(trades[i])]

\* ------------------------------------------------------------- state
VARIABLES
    site,         \* the source, as described above
    store,        \* the CSV file: [exists, rows]
    prog,         \* the program running, or that ran last: "none", "crawl", "monitor"
    pc,           \* where the running program is; "off" when none is running
    current_url,  \* local of the traversal
    visited,      \* local of the traversal
    known_ids,    \* the monitor's dedup index
    new_count,    \* local of check_for_new_trades
    raised,       \* the last program start ended in an uncaught exception
    fetchLog,     \* history: the URLs fetched by the current or last traversal
    fetchFailed,  \* history: whether a fetch of that traversal failed
    entry,        \* history: source, store rows and index when that traversal began
    prev          \* history: the monitor's cycle before the current or last one

vars ==
    << site, store, prog, pc, current_url, visited, known_ids,
       new_count, raised, fetchLog, fetchFailed, entry, prev >>

locals == << current_url, visited, new_count >>
history == << fetchLog, fetchFailed, entry, prev >>

\* No cycle has run before this one.
NoCycle == [ran |-> FALSE, failed |-> FALSE, site |-> <<>>]

\* The snapshot taken when a traversal begins.
Snapshot == [site |-> site, rows |-> store.rows, known |-> known_ids]

Init ==
    /\ site \in Sources
    /\ store = NoFile
    /\ prog = "none"
    /\ pc = "off"
    /\ current_url = None
    /\ visited = {}
    /\ known_ids = {}
    /\ new_count = 0
    /\ raised = FALSE
    /\ fetchLog = <<>>
    /\ fetchFailed = FALSE
    /\ entry = Snapshot
    /\ prev = NoCycle

\* ------------------------------------------------------- the environment
\* requests.get + raise_for_status: a URL the source does not serve always
\* fails; a URL it serves answers or fails (network error, timeout, status).
Fetched(url, ok) == ok /\ url \in DOMAIN Web(site)

\* The rows the source publishes on top of page 1, in the order it publishes
\* them: R(1) disclosed again with other amounts, then new identities.
PublishRows == <<R1p, Rnew, R(9)>>

\* The source lists a new row at the top of its first page.  A traversal
\* fetches page 1 first and never again, so a row published while a traversal
\* is under way is seen exactly as one published right after it: publishing
\* is modelled between traversals.
Publish ==
    /\ pc \in {"off", "sleep"}
    /\ Len(site.top) < MaxPublish
    /\ Len(site.top) < Len(PublishRows)
    /\ site' = [site EXCEPT !.top = <<PublishRows[Len(@) + 1]>> \o @]
    /\ UNCHANGED << store, prog, pc, locals, known_ids, raised, history >>

\* A process that ends takes its memory with it (the history of its last
\* traversal stays).
Gone ==
    /\ current_url' = None
    /\ visited' = {}
    /\ new_count' = 0
    /\ known_ids' = {}
    /\ entry' = [site |-> site, rows |-> store.rows, known |-> {}]
    /\ prev' = NoCycle
    /\ UNCHANGED << fetchLog, fetchFailed >>

\* ------------------------------------------ scrape_congress_trades.py
\* fetch_page: the parsed document, or None on a request error.
scrape_fetch_page(url, ok) ==
    IF Fetched(url, ok) THEN [none |-> FALSE, doc |-> Web(site)[url]]
    ELSE [none |-> TRUE, doc |-> <<>>]

\* main + scrape_capitol_trades up to the loop: open(output_csv, "w") truncates
\* the file and writeheader() writes the field names.
CrawlStart ==
    /\ pc = "off"
    /\ prog' = "crawl"
    /\ raised' = FALSE
    /\ visited' = {}
    /\ current_url' = START_URL
    /\ store' = [exists |-> TRUE, rows |-> <<fieldnames>>]
    /\ pc' = "loop"
    /\ fetchLog' = <<>>
    /\ fetchFailed' = FALSE
    /\ entry' = Snapshot
    /\ UNCHANGED << site, known_ids, new_count, prev >>

\* One iteration of the crawl loop.
CrawlPage ==
    /\ prog = "crawl"
    /\ pc = "loop"
    /\ ScrapeLoopCond(current_url, visited)
    /\ visited' = visited \cup {current_url}
    /\ fetchLog' = Append(fetchLog, current_url)
    /\ \E ok \in BOOLEAN :
          LET soup == scrape_fetch_page(current_url, ok)
          IN  /\ fetchFailed' = (fetchFailed \/ ~Fetched(current_url, ok))
              /\ IF soup.none
                 THEN /\ pc' = "break"
                      /\ UNCHANGED << store, current_url >>
                 ELSE LET trades == scrape_parse_trades_from_soup(soup.doc)
                      IN  /\ store' = [store EXCEPT !.rows = @ \o WriteAll(trades)]
                          /\ current_url' = scrape_find_next_page_url(soup.doc)
                          /\ pc' = "loop"
    /\ UNCHANGED << site, prog, known_ids, new_count, raised, entry, prev >>

\* Variant: a crawl that broke off on a fetch error discards what it wrote.
CrawlExit_Rollback ==
    /\ prog = "crawl"
    /\ \/ pc = "break"
       \/ pc = "loop" /\ ~ScrapeLoopCond(current_url, visited)
    /\ pc' = "off"
    /\ store' = IF fetchFailed THEN [exists |-> TRUE, rows |-> <<fieldnames>>] ELSE store
    /\ Gone
    /\ UNCHANGED << site, prog, raised >>

\* The loop ends (its condition is false, or the break); the file is closed
\* and the program exits.
CrawlExit ==
    /\ prog = "crawl"
    /\ \/ pc = "break"
       \/ pc = "loop" /\ ~ScrapeLoopCond(current_url, visited)
    /\ pc' = "off"
    /\ Gone
    /\ UNCHANGED << site, store, prog, raised >>

\* ----------------------------------------------------- trade_monitor.py
\* fetch_page: the parsed document, or None on a request error.
fetch_page(url, ok) ==
    IF Fetched(url, ok) THEN [none |-> FALSE, doc |-> Web(site)[url]]
    ELSE [none |-> TRUE, doc |-> <<>>]

\* main_loop up to `while True`: the index is loaded from the file; an
\* exception of load_known_ids ends the process.
MonitorStart ==
    /\ pc = "off"
    /\ prog' = "monitor"
    /\ LET r == load_known_ids(store)
       IN  /\ raised' = r.raised
           /\ known_ids' = r.known
           /\ pc' = IF r.raised THEN "off" ELSE "call"
    /\ fetchLog' = <<>>
    /\ fetchFailed' = FALSE
    /\ entry' = [Snapshot EXCEPT !.known = known_ids']
    /\ UNCHANGED << site, store, locals, prev >>

\* Variant: the visited set is kept from cycle to cycle.
CheckBegin_KeepVisited ==
    /\ prog = "monitor"
    /\ pc = "call"
    /\ new_count' = 0
    /\ current_url' = START_URL
    /\ pc' = "loop"
    /\ fetchLog' = <<>>
    /\ fetchFailed' = FALSE
    /\ entry' = Snapshot
    /\ prev' = IF fetchLog = <<>> THEN NoCycle
               ELSE [ran |-> TRUE, failed |-> fetchFailed, site |-> entry.site]
    /\ UNCHANGED << site, store, prog, visited, known_ids, raised >>

\* Variant: every cycle starts with an empty index.
CheckBegin_FreshIndex ==
    /\ prog = "monitor"
    /\ pc = "call"
    /\ new_count' = 0
    /\ current_url' = START_URL
    /\ visited' = {}
    /\ known_ids' = {}
    /\ pc' = "loop"
    /\ fetchLog' = <<>>
    /\ fetchFailed' = FALSE
    /\ entry' = [Snapshot EXCEPT !.known = {}]
    /\ prev' = IF fetchLog = <<>> THEN NoCycle
               ELSE [ran |-> TRUE, failed |-> fetchFailed, site |-> entry.site]
    /\ UNCHANGED << site, store, prog, raised >>

\* check_for_new_trades is entered: its locals are initialised.
CheckBegin ==
    /\ prog = "monitor"
    /\ pc = "call"
    /\ new_count' = 0
    /\ current_url' = START_URL
    /\ visited' = {}
    /\ pc' = "loop"
    /\ fetchLog' = <<>>
    /\ fetchFailed' = FALSE
    /\ entry' = Snapshot
    /\ prev' = IF fetchLog = <<>> THEN NoCycle
               ELSE [ran |-> TRUE, failed |-> fetchFailed, site |-> entry.site]
    /\ UNCHANGED << site, store, prog, known_ids, raised >>

\* Variant: a page without records does not end the invocation.
CheckPage_NoEmptyBreak ==
    /\ prog = "monitor"
    /\ pc = "loop"
    /\ LoopCond(current_url, visited)
    /\ visited' = visited \cup {current_url}
    /\ fetchLog' = Append(fetchLog, current_url)
    /\ \E ok \in BOOLEAN :
          LET soup == fetch_page(current_url, ok)
          IN  /\ fetchFailed' = (fetchFailed \/ ~Fetched(current_url, ok))
              /\ IF soup.none
                 THEN /\ pc' = "break"
                      /\ UNCHANGED << store, current_url, known_ids, new_count >>
                 ELSE LET trades == parse_trades_from_soup(soup.doc)
                          done == AppendNew(trades, [rows |-> store.rows,
                                                     known |-> known_ids,
                                                     count |-> new_count])
                          next_url == find_next_page_url(soup.doc)
                      IN  /\ store' = [exists |-> TRUE, rows |-> done.rows]
                          /\ known_ids' = done.known
                          /\ new_count' = done.count
                          /\ IF Advance(next_url, visited')
                             THEN /\ current_url' = next_url
                                  /\ pc' = "loop"
                             ELSE /\ pc' = "break"
                                  /\ UNCHANGED current_url
    /\ UNCHANGED << site, prog, raised, entry, prev >>

\* One iteration of the loop of check_for_new_trades.
CheckPage ==
    /\ prog = "monitor"
    /\ pc = "loop"
    /\ LoopCond(current_url, visited)
    /\ visited' = visited \cup {current_url}
    /\ fetchLog' = Append(fetchLog, current_url)
    /\ \E ok \in BOOLEAN :
          LET soup == fetch_page(current_url, ok)
          IN  /\ fetchFailed' = (fetchFailed \/ ~Fetched(current_url, ok))
              /\ IF soup.none
                 THEN /\ pc' = "break"
                      /\ UNCHANGED << store, current_url, known_ids, new_count >>
                 ELSE LET trades == parse_trades_from_soup(soup.doc)
                          done == AppendNew(trades, [rows |-> store.rows,
                                                     known |-> known_ids,
                                                     count |-> new_count])
                          next_url == find_next_page_url(soup.doc)
                      IN  IF trades = <<>>
                          THEN /\ pc' = "break"
                               /\ UNCHANGED << store, current_url, known_ids, new_count >>
                          ELSE /\ store' = [exists |-> TRUE, rows |-> done.rows]
                               /\ known_ids' = done.known
                               /\ new_count' = done.count
                               /\ IF Advance(next_url, visited')
                                  THEN /\ current_url' = next_url
                                       /\ pc' = "loop"
                                  ELSE /\ pc' = "break"
                                       /\ UNCHANGED current_url
    /\ UNCHANGED << site, prog, raised, entry, prev >>

\* `return new_count`, and main_loop reports it and goes to sleep.
CheckReturn ==
    /\ prog = "monitor"
    /\ \/ pc = "break"
       \/ pc = "loop" /\ ~LoopCond(current_url, visited)
    /\ pc' = "sleep"
    /\ UNCHANGED << site, store, prog, locals, known_ids, raised, history >>

\* Variant: main_loop runs one cycle and returns after the sleep.
Wake_Exit ==
    /\ prog = "monitor"
    /\ pc = "sleep"
    /\ pc' = "off"
    /\ Gone
    /\ UNCHANGED << site, store, prog, raised >>

\* time.sleep(3600) returns and the loop of main_loop goes round.
Wake ==
    /\ prog = "monitor"
    /\ pc = "sleep"
    /\ pc' = "call"
    /\ UNCHANGED << site, store, prog, locals, known_ids, raised, history >>

\* The monitor process is terminated from outside while it sleeps.
Kill ==
    /\ prog = "monitor"
    /\ pc = "sleep"
    /\ pc' = "off"
    /\ Gone
    /\ UNCHANGED << site, store, prog, raised >>

\* ------------------------------------------------------ specifications
Next ==
    \/ Publish
    \/ CrawlStart
    \/ CrawlPage
    \/ CrawlExit
    \/ MonitorStart
    \/ CheckBegin
    \/ CheckPage
    \/ CheckReturn
    \/ Wake
    \/ Kill

Spec == Init /\ [][Next]_vars

\* The programs left to run: nobody terminates the monitor.
NextAlone ==
    \/ Publish
    \/ CrawlStart
    \/ CrawlPage
    \/ CrawlExit
    \/ MonitorStart
    \/ CheckBegin
    \/ CheckPage
    \/ CheckReturn
    \/ Wake

\* A step of a running program.
Step == CrawlPage \/ CrawlExit \/ CheckBegin \/ CheckPage \/ CheckReturn \/ Wake

\* Both programs are sequential: a running program always takes its next step.
FairSpec == Init /\ [][NextAlone]_vars /\ WF_vars(Step)

\* ---------------------------------------------------- claim vocabulary
\* The URLs of pages 1..n, in chain order.
ChainUrls(n) == [i \in 1..n |-> PageUrl(i)]

NoRepeat(log) == \A i, j \in 1..Len(log) : i # j => log[i] # log[j]

IsPrefix(s, t) == Len(s) <= Len(t) /\ SubSeq(t, 1, Len(s)) = s

\* The column of a field in a row of the store.
Col(name) == CHOOSE i \in 1..Len(fieldnames) : fieldnames[i] = name

\* A row of the store that is a record and not the header.
IsRecordRow(row) == row # fieldnames

\* (Politician, TradedDate, Issuer, Type) of a stored record.
Identity(row) ==
    << row[Col(Politician)], row[Col(TradedDate)], row[Col(Issuer)], row[Col(Type)] >>

\* The Identity Key of a stored record.
KeyOfRow(row) ==
    row[Col(Politician)] \o row[Col(TradedDate)] \o row[Col(Issuer)] \o row[Col(Type)]

\* The source has more than 3 linked pages and its first 3 list records.
DeepSource ==
    /\ site.n > 3
    /\ \A i \in 1..3 : parse_trades_from_soup(Web(site)[PageUrl(i)]) # <<>>

\* The loop is at a URL it is about to fetch, the fetch of this step succeeds,
\* and the document fetched yields no record.
FetchedNoRecords ==
    /\ pc = "loop"
    /\ fetchLog' = Append(fetchLog, current_url)
    /\ ~fetchFailed'
    /\ parse_trades_from_soup(Web(site)[current_url]) = <<>>

\* The pages of the source that yield no record.
NoRecordPages ==
    {i \in 1..site.n : parse_trades_from_soup(Web(site)[PageUrl(i)]) = <<>>}

\* The document the traversal is at: the one its next fetch can answer with.
Documents ==
    IF pc = "loop" /\ current_url \in DOMAIN Web(site)
    THEN {Web(site)[current_url]}
    ELSE {}

\* The rows of a table that have at least 9 cells, and the place of row i
\* among them.
ValidRows(rows) == {i \in 1..Len(rows) : Len(rows[i]) >= 9}
Place(rows, i) == Cardinality({j \in ValidRows(rows) : j <= i})

\* A document with the short rows of its table taken out.
HasNineCells(row) == Len(row) >= 9
WithoutShortRows(doc) == [doc EXCEPT !.rows = SelectSeq(@, HasNineCells)]

\* recs holds, in document order, one record for each row of doc with at
\* least 9 cells, built from the first 9 cells of the row.
ExtractsValidRows(recs, doc) ==
    IF ~doc.table THEN recs = <<>>
    ELSE /\ Len(recs) = Cardinality(ValidRows(doc.rows))
         /\ \A i \in ValidRows(doc.rows) :
               LET rec == recs[Place(doc.rows, i)]
               IN  /\ DOMAIN rec = {fieldnames[c] : c \in 1..9}
                   /\ \A c \in 1..9 :
                         rec[fieldnames[c]] =
                            IF fieldnames[c] = Type
                            THEN Lower(GetTextStrip(doc.rows[i][c]))
                            ELSE GetTextStrip(doc.rows[i][c])

\* The two-page listing of the end-to-end example, before anything is
\* published on top of it.
ExampleSource == [n |-> 2, tail |-> "none", layout |-> Example, top |-> <<>>]

\* The stored row expected for the valid row R(i) of the listing.
ExampleRow(i) ==
    << <<"n", Digit[i]>>, <<"x">>, <<"0","3">>, <<"0","1">>, <<"2">>,
       <<"s","e","l","f">>,
       IF i % 2 = 1 THEN <<"b","u","y">> ELSE <<"s","e","l","l">>,
       <<"1","K">>, <<"$","5">> >>

\* The 8 records of the listing, in source order.
ExampleRecords == [i \in 1..8 |-> ExampleRow(i)]

\* The crawl has left its loop (by the break or by its condition), or has
\* exited since.
CrawlFinished ==
    /\ prog = "crawl"
    /\ \/ pc \in {"break", "off"}
       \/ pc = "loop" /\ ~ScrapeLoopCond(current_url, visited)

\* The URLs whose fetch succeeded: a failed fetch is the last of its traversal.
FetchedOk ==
    IF fetchFailed THEN SubSeq(fetchLog, 1, Len(fetchLog) - 1) ELSE fetchLog

\* One row per record extracted from the documents at the URLs of log, taken
\* from source src, in the order of log and of each document.
RECURSIVE RowsOf(_, _)
RowsOf(src, log) ==
    IF log = <<>> THEN <<>>
    ELSE LET trades == scrape_parse_trades_from_soup(Web(src)[log[Len(log)]])
         IN  RowsOf(src, SubSeq(log, 1, Len(log) - 1))
                \o [i \in 1..Len(trades) |-> writerow(trades[i])]

\* The next-page control of a document is absent or has no link target.
EndsListing(doc) == ~doc.next.control \/ doc.next.href = None

\* The loop is at a URL it is about to fetch, the fetch of this step succeeds,
\* and the document fetched has no next-page control with a link target.
FetchedLastPage ==
    /\ pc = "loop"
    /\ fetchLog' = Append(fetchLog, current_url)
    /\ ~fetchFailed'
    /\ EndsListing(Web(site)[current_url])

\* The rows a step has appended to the store.
Appended == SubSeq(store'.rows, Len(store.rows) + 1, Len(store'.rows))

\* The step has appended, for the records trades, one row for each key that
\* was not in the index (the row of the first record with that key), and
\* nothing else, and all the keys are in the index after it.
PersistedNew(trades) ==
    /\ IsPrefix(store.rows, store'.rows)
    /\ \A i \in 1..Len(trades) :
          /\ unique_id(trades[i]) \in known_ids'
          /\ unique_id(trades[i]) \notin known_ids
                => \E k \in 1..Len(Appended) : KeyOfRow(Appended[k]) = unique_id(trades[i])
    /\ \A k \in 1..Len(Appended) :
          /\ KeyOfRow(Appended[k]) \notin known_ids
          /\ \A m \in 1..Len(Appended) :
                KeyOfRow(Appended[m]) = KeyOfRow(Appended[k]) => m = k
          /\ \E i \in 1..Len(trades) :
                /\ Appended[k] = writerow(trades[i])
                /\ \A j \in 1..(i - 1) : unique_id(trades[j]) # unique_id(trades[i])

\* The Identity Keys of the records in a sequence of store rows.
KeysOf(rows) == {KeyOfRow(rows[i]) : i \in {j \in 1..Len(rows) : IsRecordRow(rows[j])}}

\* No two records in a sequence of store rows have equal Identity Keys.
NoDupKeys(rows) ==
    \A i, j \in 1..Len(rows) :
        IsRecordRow(rows[i]) /\ IsRecordRow(rows[j]) /\ i # j
            => KeyOfRow(rows[i]) # KeyOfRow(rows[j])

\* A store a monitor may start from: none, or a header row followed by
\* records with pairwise different keys.
CleanStart(st) ==
    \/ ~st.exists
    \/ /\ st.rows # <<>>
       /\ st.rows[1] = fieldnames
       /\ NoDupKeys(st.rows)

\* The store has no two records with equal keys and the index is the set of
\* the keys of its records.
IndexMatchesStore == NoDupKeys(store.rows) /\ known_ids = KeysOf(store.rows)

\* (Politician, TradedDate, Issuer, Type) of an extracted record.
FourFields(t) == << t[Politician], t[TradedDate], t[Issuer], t[Type] >>

\* The loop is at a URL it is about to fetch and the fetch of this step
\* succeeds.
FetchedPage ==
    /\ pc = "loop"
    /\ fetchLog' = Append(fetchLog, current_url)
    /\ ~fetchFailed'

\* The pages a full crawl of source src fetches when no fetch fails and the
\* chain ends without a link to a page that is not served.
CrawledPages(src) == ChainUrls(src.n)

\* The store a full crawl of source src leaves when no fetch fails.
CrawledStore(src) == <<fieldnames>> \o RowsOf(src, CrawledPages(src))

\* The keys computed at extraction for the records of the pages of src.
ExtractedKeys(src) ==
    UNION {{unique_id(parse_trades_from_soup(Web(src)[u])[i]) :
                i \in 1..Len(parse_trades_from_soup(Web(src)[u]))} :
           u \in DOMAIN Web(src)}

\* ------------------------------------------------------------- claims
\* C1: a full crawl of a chain of N linked pages whose last page has no
\* next-page control, with every fetch succeeding, fetches pages 1..N, each
\* once and in chain order, and then terminates.
C1_FullCrawlVisitsChain ==
    /\ [](prog = "crawl" /\ pc = "off" /\ site.tail = "none" /\ ~fetchFailed
            => fetchLog = ChainUrls(site.n))
    /\ (prog = "crawl" /\ pc = "loop" /\ site.tail = "none")
            ~> (prog = "crawl" /\ pc = "off")

C1_Witness ==
    /\ prog = "crawl" /\ pc = "off" /\ site.tail = "none" /\ ~fetchFailed
    /\ site.n = MaxChain /\ Len(fetchLog) = MaxChain

\* C2: in both modes every traversal terminates and fetches no URL twice; when
\* the next URL is already in the visited set the traversal ends there.
C2_TraversalTerminates ==
    /\ [](NoRepeat(fetchLog))
    /\ [][pc = "loop" /\ current_url \in visited => pc' \in {"off", "sleep"}]_vars
    /\ (pc = "loop") ~> (pc \in {"off", "sleep"})

C2_Witness ==
    /\ prog = "monitor" /\ pc = "loop" /\ ~fetchFailed
    /\ Truthy(current_url) /\ current_url \in visited /\ Len(fetchLog) = 2

\* C3 as stated: one invocation of incremental mode fetches at most 3 pages,
\* and on a source with more than 3 linked non-empty pages it fetches exactly
\* pages 1, 2 and 3.
C3_Original ==
    prog = "monitor" =>
        /\ Len(fetchLog) <= 3
        /\ (pc = "sleep" /\ DeepSource => fetchLog = ChainUrls(3))

\* C3 as amended: ... and, when every fetch succeeds, on a source with more
\* than 3 linked non-empty pages it fetches exactly pages 1, 2 and 3.
C3_PageCap ==
    prog = "monitor" =>
        /\ Len(fetchLog) <= 3
        /\ (pc = "sleep" /\ DeepSource /\ ~fetchFailed => fetchLog = ChainUrls(3))

C3_Witness ==
    /\ prog = "monitor" /\ pc = "sleep" /\ DeepSource /\ ~fetchFailed
    /\ Len(fetchLog) = 3 /\ new_count = 3

\* C4: the monitor never appends a record whose (Politician, TradedDate,
\* Issuer, Type) equals that of a record already in the store and whose Price
\* or SizeRange differs from it: only the first encountered is persisted.
C4_DedupFirstOnly ==
    [][prog' = "monitor" =>
        \A i \in (Len(store.rows) + 1)..Len(store'.rows) :
            \A j \in 1..(i - 1) :
                LET a == store'.rows[j]
                    b == store'.rows[i]
                IN  ~ /\ IsRecordRow(a)
                      /\ Identity(a) = Identity(b)
                      /\ \/ a[Col(Price)] # b[Col(Price)]
                         \/ a[Col(SizeRange)] # b[Col(SizeRange)]]_vars

\* C5 as stated: of two consecutive runs of incremental mode against the same
\* unchanged source, the second returns 0 and leaves the store unchanged.
C5_Original ==
    prog = "monitor" /\ pc = "sleep" /\ prev.ran /\ prev.site = entry.site
        => new_count = 0 /\ store.rows = entry.rows

\* C5 as amended: ... provided every fetch of the first run succeeded.
C5_Idempotent ==
    prog = "monitor" /\ pc = "sleep" /\ prev.ran /\ prev.site = entry.site
                     /\ ~prev.failed
        => new_count = 0 /\ store.rows = entry.rows

C5_Witness ==
    /\ prog = "monitor" /\ pc = "sleep" /\ prev.ran /\ prev.site = entry.site
    /\ ~prev.failed /\ ~fetchFailed /\ Len(fetchLog) = 3 /\ Len(store.rows) >= 3

\* C6: a fetch failure ends the traversal: no further page is fetched, no
\* error escapes, and nothing already written is taken back; a failure on
\* page 1 in incremental mode leaves store and index unchanged and returns 0.
C6_FetchFailureContained ==
    /\ [](fetchFailed => pc # "loop" /\ ~raised)
    /\ [][fetchFailed' =>
            /\ store' = store
            /\ fetchLog' = IF fetchFailed THEN fetchLog
                           ELSE Append(fetchLog, current_url)]_vars
    /\ [](prog = "monitor" /\ pc \in {"break", "sleep"} /\ fetchFailed
                           /\ Len(fetchLog) = 1
            => store.rows = entry.rows /\ known_ids = entry.known /\ new_count = 0)

C6_Witness ==
    /\ prog = "crawl" /\ pc = "off" /\ fetchFailed
    /\ Len(fetchLog) = 3 /\ Len(store.rows) = 3

\* C7: the monitor never stops on its own: every cycle finishes and reports a
\* count (0 when its first fetch fails), every sleep is followed by another
\* cycle, and a cycle starts only after the one before has returned.
C7_SchedulerNeverStops ==
    /\ (prog = "monitor" /\ pc \in {"call", "loop", "break"})
            ~> (prog = "monitor" /\ pc = "sleep")
    /\ (prog = "monitor" /\ pc = "sleep") ~> (prog = "monitor" /\ pc = "loop")
    /\ [][prog = "monitor" /\ pc # "off" => pc' # "off"]_vars
    /\ [][prog' = "monitor" /\ pc' = "call" /\ pc # "call" => pc \in {"off", "sleep"}]_vars
    /\ [](prog = "monitor" /\ pc = "sleep" /\ fetchFailed /\ Len(fetchLog) = 1
            => new_count = 0)

C7_Witness ==
    /\ prog = "monitor" /\ pc = "sleep" /\ prev.ran /\ prev.failed
    /\ fetchFailed /\ Len(fetchLog) = 1

\* C8: whenever the store exists its first row is the 9-field header and every
\* later row is a record.
C8_HeaderFirst ==
    store.exists =>
        /\ Len(store.rows) >= 1
        /\ store.rows[1] = fieldnames
        /\ \A i \in 2..Len(store.rows) : IsRecordRow(store.rows[i])

\* C9: when the monitor has started, loading the index has not failed and the
\* index holds the Identity Key of every record row of the store.
C9_IndexRebuilt ==
    prog = "monitor" /\ fetchLog = <<>> /\ (pc = "call" \/ raised)
        => /\ ~raised
           /\ \A i \in 1..Len(store.rows) :
                 IsRecordRow(store.rows[i]) => KeyOfRow(store.rows[i]) \in known_ids

\* C10: the value an invocation of incremental mode returns is the number of
\* rows it appended to the store and the number of keys it added to the index.
C10_ReturnCount ==
    prog = "monitor" /\ pc \in {"break", "sleep"}
        => /\ IsPrefix(entry.rows, store.rows)
           /\ new_count = Len(store.rows) - Len(entry.rows)
           /\ entry.known \subseteq known_ids
           /\ new_count = Cardinality(known_ids \ entry.known)

C10_Witness ==
    /\ prog = "monitor" /\ pc = "sleep" /\ fetchFailed
    /\ Len(fetchLog) = 3 /\ new_count = 2

\* C11: when a page fetched by incremental mode yields no record (no table, an
\* empty table, malformed rows only), the invocation stops there: nothing is
\* appended or indexed, and no page is fetched after it although the page
\* links to a next one.  The full crawl writes nothing for such a page, goes on
\* to the URL of its next-page control and fetches it.
C11_ZeroRecordsStop ==
    /\ [][prog = "monitor" /\ FetchedNoRecords
            => /\ pc' = "break"
               /\ store' = store /\ known_ids' = known_ids /\ new_count' = new_count]_vars
    /\ [][prog = "monitor" /\ pc = "break"
            => pc' = "sleep" /\ fetchLog' = fetchLog /\ store' = store]_vars
    /\ [][prog = "crawl" /\ FetchedNoRecords
            => /\ pc' = "loop"
               /\ store' = store
               /\ current_url' = scrape_find_next_page_url(Web(site)[current_url])]_vars
    /\ [][prog = "crawl" /\ pc = "loop" /\ ScrapeLoopCond(current_url, visited)
            => fetchLog' = Append(fetchLog, current_url)]_vars
    /\ [](prog = "crawl" /\ pc = "off" /\ ~fetchFailed /\ site.tail = "none"
            => \A i \in NoRecordPages : \E k \in 1..Len(fetchLog) : fetchLog[k] = PageUrl(i))
    /\ [](prog = "monitor" /\ pc \in {"break", "sleep"} /\ ~fetchFailed
            => \A i \in NoRecordPages : \A k \in 1..Len(fetchLog) :
                    fetchLog[k] = PageUrl(i) => k = Len(fetchLog))

C11_Witness ==
    /\ prog = "monitor" /\ pc = "sleep" /\ ~fetchFailed
    /\ site.n = 3 /\ NoRecordPages = {2}
    /\ fetchLog = ChainUrls(2) /\ new_count = 1

\* C12: for every document a traversal comes to, extraction (in either program)
\* returns, in document order, one record for exactly the rows with at least 9
\* cells, built from their first 9 cells; the rows with fewer cells change
\* nothing for the others; without the table the result is empty.
C12_ExtractValidRows ==
    \A doc \in Documents :
        /\ ExtractsValidRows(parse_trades_from_soup(doc), doc)
        /\ ExtractsValidRows(scrape_parse_trades_from_soup(doc), doc)
        /\ parse_trades_from_soup(WithoutShortRows(doc)) = parse_trades_from_soup(doc)
        /\ scrape_parse_trades_from_soup(WithoutShortRows(doc))
                = scrape_parse_trades_from_soup(doc)

C12_Witness ==
    /\ prog = "crawl" /\ pc = "off" /\ ~fetchFailed
    /\ site.layout = "wide" /\ site.n = 2 /\ site.top = <<>>
    /\ store.rows = << fieldnames, writerow(RecordOf(R(1))),
                       writerow(RecordOf(R(7))), writerow(RecordOf(R(2))) >>

\* C13: on the two-page example listing (5 valid rows and an 8-cell row on
\* page 1, 3 valid rows on page 2, no next link there) with every fetch
\* succeeding, a full crawl leaves the header and the 8 records in source
\* order, and one cycle of a monitor started without a store fetches both
\* pages, appends the same 8 records in the same order and returns 8.
C13_EndToEnd ==
    /\ prog = "crawl" /\ pc = "off" /\ ~fetchFailed /\ entry.site = ExampleSource
            => store.rows = <<fieldnames>> \o ExampleRecords
    /\ prog = "monitor" /\ pc = "sleep" /\ ~fetchFailed
                        /\ entry.site = ExampleSource /\ entry.rows = <<>>
            => /\ store.rows = ExampleRecords
               /\ new_count = 8
               /\ fetchLog = ChainUrls(2)

C13_Witness ==
    /\ prog = "monitor" /\ pc = "sleep" /\ ~fetchFailed /\ ~prev.ran
    /\ entry.site = ExampleSource /\ entry.rows = <<>> /\ entry.known = {}
    /\ Len(store.rows) = 8 /\ new_count = 8

\* C14: when the full crawl finishes the store is the header followed by the
\* records of every successfully fetched page, in visit order and with equal
\* keys all written, and holds nothing from before: the file is truncated
\* before the first fetch, and a fetch failure on page 1 leaves the header only.
C14_CrawlStore ==
    /\ prog = "crawl" /\ pc = "loop" /\ fetchLog = <<>>
            => store = [exists |-> TRUE, rows |-> <<fieldnames>>]
    /\ CrawlFinished
            => store = [exists |-> TRUE,
                        rows |-> <<fieldnames>> \o RowsOf(entry.site, FetchedOk)]
    /\ CrawlFinished /\ fetchFailed /\ Len(fetchLog) = 1
            => store.rows = <<fieldnames>>

C14_Witness ==
    /\ prog = "crawl" /\ pc = "loop" /\ ~ScrapeLoopCond(current_url, visited)
    /\ Len(entry.rows) >= 2 /\ entry.rows[1] # fieldnames
    /\ entry.site.layout = "dupSame" /\ entry.site.n = 2 /\ entry.site.top # <<>>
    /\ Len(store.rows) = 5

\* C15: while one monitor process lives, whatever the cycle and the outcome
\* of its fetches, no step removes a key from the index and no step changes
\* the store other than by appending rows to it.
C15_MonotoneIndexAndStore ==
    [][prog = "monitor" /\ pc # "off" /\ pc' # "off"
        => /\ prog' = "monitor"
           /\ known_ids \subseteq known_ids'
           /\ IsPrefix(store.rows, store'.rows)
           /\ (store.exists => store'.exists)]_vars

C15_Witness ==
    /\ prog = "monitor" /\ pc = "sleep" /\ prev.ran /\ prev.failed /\ fetchFailed
    /\ entry.known # {} /\ new_count >= 1
    /\ Cardinality(known_ids) > Cardinality(entry.known)
    /\ Len(store.rows) > Len(entry.rows)

\* C16: the visited set belongs to one invocation: every cycle of the monitor
\* begins with an empty visited set at page 1 and fetches page 1 first,
\* whatever the cycles before it visited, and the index it begins with is the
\* index the cycle before ended with.
C16_VisitedPerCycle ==
    /\ [][prog = "monitor" /\ pc = "call"
            => /\ pc' = "loop" /\ visited' = {} /\ current_url' = START_URL
               /\ known_ids' = known_ids]_vars
    /\ [][prog = "monitor" /\ pc = "loop" /\ fetchLog = <<>>
            => fetchLog' = <<START_URL>>]_vars
    /\ [][prog = "monitor" /\ pc \in {"break", "sleep"} /\ pc' # "off"
            => known_ids' = known_ids]_vars
    /\ [](prog = "monitor" /\ pc \in {"break", "sleep"}
            => fetchLog # <<>> /\ fetchLog[1] = START_URL)

C16_Witness ==
    /\ prog = "monitor" /\ pc = "sleep" /\ prev.ran /\ ~prev.failed /\ ~fetchFailed
    /\ entry.known # {} /\ known_ids = entry.known
    /\ fetchLog = ChainUrls(3)

\* C17: a page whose next-page control is absent, or has no link target, ends
\* the traversal without a failure: the step that fetches it persists its
\* records (in incremental mode those with a new key) and the traversal then
\* ends without another fetch, with no fetch failure and no exception.
C17_NoNextEndsNormally ==
    /\ [][prog = "monitor" /\ FetchedLastPage
            => /\ pc' = "break" /\ ~raised'
               /\ PersistedNew(parse_trades_from_soup(Web(site)[current_url]))]_vars
    /\ [][prog = "crawl" /\ FetchedLastPage
            => /\ pc' = "loop" /\ current_url' = None /\ ~raised'
               /\ store'.rows = store.rows \o
                    RowsOf(site, <<current_url>>)]_vars
    /\ [][pc = "break" \/ (pc = "loop" /\ current_url = None)
            => /\ pc' \in {"off", "sleep"}
               /\ fetchLog' = fetchLog /\ fetchFailed' = fetchFailed
               /\ store' = store /\ ~raised']_vars

C17_Witness ==
    /\ prog = "monitor" /\ pc = "sleep" /\ ~fetchFailed /\ ~raised
    /\ site.tail = "nohref" /\ site.n = 2 /\ site.top # <<>>
    /\ fetchLog = ChainUrls(2) /\ new_count = 2 /\ prev.ran

\* C18: a monitor started from no store, or from a store with a header and no
\* two records with equal keys, starts without an exception with the index
\* equal to the set of keys of the stored records, and every step of the
\* process keeps the store free of equal keys and the index equal to that set:
\* so it is at the end of every invocation.
C18_IndexEqualsStoreKeys ==
    /\ [][MonitorStart /\ CleanStart(store)
            => pc' = "call" /\ ~raised' /\ IndexMatchesStore']_vars
    /\ [][prog = "monitor" /\ pc # "off" /\ pc' # "off" /\ IndexMatchesStore
            => IndexMatchesStore']_vars

C18_Witness ==
    /\ prog = "monitor" /\ pc = "sleep" /\ prev.ran
    /\ store.rows # <<>> /\ store.rows[1] = fieldnames /\ IndexMatchesStore
    /\ new_count >= 1 /\ entry.known # {} /\ site.top # <<>>

\* C19: in a monitor whose index is the set of keys of the stored records, a
\* record extracted from a fetched page whose (Politician, TradedDate, Issuer,
\* Type) differs from that of every stored record and of every record before
\* it on the page is appended: a record is left out as a duplicate only if
\* another agrees with it on all four fields.
C19_FourFieldIdentity ==
    [][prog = "monitor" /\ FetchedPage /\ IndexMatchesStore
        => LET trades == parse_trades_from_soup(Web(site)[current_url])
           IN  \A i \in 1..Len(trades) :
                 /\ \A r \in 1..Len(store.rows) :
                        IsRecordRow(store.rows[r])
                            => Identity(store.rows[r]) # FourFields(trades[i])
                 /\ \A j \in 1..(i - 1) : FourFields(trades[j]) # FourFields(trades[i])
                 => \E k \in 1..Len(Appended) : Appended[k] = writerow(trades[i])]_vars

\* C20: a monitor started on the store a full crawl without fetch failure has
\* left, with the source unchanged since, loads as its index exactly the keys
\* computed at extraction for the records of the source, and its first cycle
\* appends nothing and returns 0.
C20_CrawlThenMonitor ==
    /\ [][MonitorStart /\ site.tail # "dangling" /\ store.rows = CrawledStore(site)
            => pc' = "call" /\ known_ids' = ExtractedKeys(site)]_vars
    /\ [](prog = "monitor" /\ pc \in {"break", "sleep"} /\ ~prev.ran
                           /\ entry.site.tail # "dangling"
                           /\ entry.rows = CrawledStore(entry.site)
            => new_count = 0 /\ store.rows = entry.rows)

C20_Witness ==
    /\ prog = "monitor" /\ pc = "sleep" /\ ~prev.ran /\ ~fetchFailed
    /\ entry.site.tail = "none" /\ entry.site.layout = "dupAcross"
    /\ entry.site.n = 3 /\ entry.site.top # <<>>
    /\ entry.rows = CrawledStore(entry.site)
    /\ fetchLog = ChainUrls(3) /\ new_count = 0

====
